---- MODULE Spec2Model ----
(***************************************************************************)
(* Model of the ecc crate: prime-field arithmetic (field.rs), the group    *)
(* law on short-Weierstrass curves (point.rs), curve construction and      *)
(* order search (curve.rs) and the Diffie-Hellman / ElGamal wrappers       *)
(* (protocols/).  The library is a set of pure functions over immutable    *)
(* values; the state of the model is the set of values a caller holds and  *)
(* the record of the last call it made.                                    *)
(***************************************************************************)
EXTENDS Integers, Sequences, FiniteSets, TLC

\* ---------------------------------------------------------------- bounds
\* largest modulus handed to FieldElement::new / Curve::new
MaxModulus == 5
\* raw integers handed to constructors range over -MaxValue..MaxValue
MaxValue == 6
\* exponents handed to pow range over -MaxExp..MaxExp
MaxExp == 6

Moduli == (-1)..MaxModulus
Values == (-MaxValue)..MaxValue
Exps == (-MaxExp)..MaxExp
\* scalars handed to the scalar multiplication range over -1..MaxScalar
MaxScalar == 8
Scalars == (-1)..MaxScalar
\* the r handed to encrypt ranges over 0..MaxR
MaxR == 1
\* largest modulus of the curves the encryption scheme is run on
MaxEGModulus == 3
EGModuli == (-1)..MaxEGModulus
\* raw coefficients and coordinates handed to Curve::new / Curve::point
Coefs == (-1)..MaxModulus

\* ------------------------------------------------------- Rust primitives
\* i64 `%`: remainder of the truncated division, sign of the dividend
Rem(a, b) ==
  IF a >= 0 THEN a % b ELSE -((-a) % b)

\* i64 `/` for a positive divisor: truncated towards zero
TruncDiv(a, b) ==
  IF a >= 0 THEN a \div b ELSE -((-a) \div b)

\* Result::Ok / Result::Err, Option::None
Ok(v) == [tag |-> "Ok", val |-> v]
Err(e) == [tag |-> "Err", err |-> e]
None == [tag |-> "None"]

\* a panic unwinding out of the call (assert_eq!, expect, unwrap)
Panicked == [tag |-> "Panic"]
\* a call that never returns (unbounded recursion)
Diverged == [tag |-> "Diverge"]

IsOk(r) == r.tag = "Ok"

\* a FieldElement is the record [value, prime]; anything carrying a tag is
\* not a value
IsFE(x) == DOMAIN x = {"value", "prime"}

\* Result::unwrap / Result::expect
Expect(r) ==
  IF r.tag = "Ok" THEN r.val ELSE Panicked

\* `let v = value;` followed by the rest of the function body
Bind(value, Rest(_)) == Rest(value)

\* `let v = result?;`: an Err (or a panic on the way) leaves the function,
\* an Ok value is handed to the rest of the body
Try(result, Rest(_)) ==
  IF result.tag = "Ok" THEN Rest(result.val) ELSE result

\* ------------------------------------------------------------- field.rs
\* FieldElement::new with the plain remainder, which keeps the dividend's sign
FieldElement_new_plain_rem(value, prime) ==
  IF prime <= 0
  THEN Err("InvalidElement")
  ELSE Ok([value |-> Rem(value, prime), prime |-> prime])

FieldElement_new(value, prime) ==
  IF prime <= 0
  THEN Err("InvalidElement")
  ELSE Ok([value |-> Rem(Rem(value, prime) + prime, prime), prime |-> prime])

fe_add(self, other) ==
  IF ~IsFE(self) \/ ~IsFE(other) THEN Panicked
  ELSE IF self.prime # other.prime THEN Panicked
  ELSE Expect(FieldElement_new(Rem(self.value + other.value, self.prime), self.prime))

fe_sub(self, other) ==
  IF ~IsFE(self) \/ ~IsFE(other) THEN Panicked
  ELSE IF self.prime # other.prime THEN Panicked
  ELSE Expect(FieldElement_new(
         Rem(self.value - other.value + self.prime, self.prime), self.prime))

fe_mul(self, other) ==
  IF ~IsFE(self) \/ ~IsFE(other) THEN Panicked
  ELSE IF self.prime # other.prime THEN Panicked
  ELSE Expect(FieldElement_new(Rem(self.value * other.value, self.prime), self.prime))

fe_neg(self) ==
  IF ~IsFE(self) THEN Panicked
  ELSE Expect(FieldElement_new(-self.value, self.prime))

\* the extended-Euclid loop of inv: returns the final old_r (gcd) and old_t
RECURSIVE inv_loop(_, _, _, _, _, _)
inv_loop(old_r, r, old_s, s, old_t, t) ==
  IF r # 0
  THEN LET quotient == TruncDiv(old_r, r)
       IN inv_loop(r, old_r - quotient * r,
                   s, old_s - quotient * s,
                   t, old_t - quotient * t)
  ELSE [old_r |-> old_r, old_s |-> old_s, old_t |-> old_t]

\* inv returning the Bezout coefficient of the modulus instead of the value's
FieldElement_inv_wrong_coeff(self) ==
  IF self.value = 0 THEN Err("DivisionByZero")
  ELSE LET e == inv_loop(self.prime, self.value, 1, 0, 0, 1)
       IN IF e.old_r # 1 THEN Err("InvalidElement")
          ELSE FieldElement_new(e.old_s, self.prime)

FieldElement_inv(self) ==
  IF self.value = 0 THEN Err("DivisionByZero")
  ELSE LET e == inv_loop(self.prime, self.value, 1, 0, 0, 1)
       IN IF e.old_r # 1 THEN Err("InvalidElement")
          ELSE FieldElement_new(e.old_t, self.prime)

fe_div(self, other) ==
  IF ~IsFE(self) \/ ~IsFE(other) THEN Panicked
  ELSE IF self.prime # other.prime THEN Panicked
  ELSE fe_mul(self, Expect(FieldElement_inv(other)))

\* the square-and-multiply loop of pow
RECURSIVE pow_loop(_, _, _)
pow_loop(current, result, e) ==
  IF e > 0
  THEN pow_loop(fe_mul(current, current),
                IF e % 2 = 1 THEN fe_mul(result, current) ELSE result,
                e \div 2)
  ELSE result

\* pow folding a negative exponent by prime instead of prime - 1
RECURSIVE FieldElement_pow_fold_by_prime(_, _)
FieldElement_pow_fold_by_prime(self, exp) ==
  IF exp < 0
  THEN IF self.prime + exp <= exp
       THEN Diverged
       ELSE FieldElement_pow_fold_by_prime(self, self.prime + exp)
  ELSE LET one == FieldElement_new(1, self.prime)
       IN IF ~IsOk(one) THEN one
          ELSE LET out == pow_loop(self, one.val, exp)
               IN IF IsFE(out) THEN Ok(out) ELSE out

RECURSIVE FieldElement_pow(_, _)
FieldElement_pow(self, exp) ==
  IF exp < 0
  THEN IF self.prime - 1 + exp <= exp
       THEN Diverged
       ELSE FieldElement_pow(self, self.prime - 1 + exp)
  ELSE LET one == FieldElement_new(1, self.prime)
       IN IF ~IsOk(one) THEN one
          ELSE LET out == pow_loop(self, one.val, exp)
               IN IF IsFE(out) THEN Ok(out) ELSE out

\* -------------------------------------------------------------- point.rs
Point(x, y, a, b) == [x |-> x, y |-> y, a |-> a, b |-> b]

\* Point::new checking y^2 == x^3 + b, the a*x term left out
Point_new_no_ax(x, y, a, b) ==
  IF x = None /\ y = None
  THEN Ok(Point(x, y, a, b))
  ELSE IF x # None /\ y # None
       THEN Bind(fe_mul(y, y), LAMBDA y_squared :
            Bind(fe_mul(fe_mul(x, x), x), LAMBDA x_cubed :
            Bind(fe_add(x_cubed, b), LAMBDA rhs :
              IF ~IsFE(y_squared) \/ ~IsFE(rhs) THEN Panicked
              ELSE IF y_squared = rhs
                   THEN Ok(Point(x, y, a, b))
                   ELSE Err("NotOnCurve"))))
       ELSE Err("NotOnCurve")

Point_new(x, y, a, b) ==
  IF x = None /\ y = None
  THEN Ok(Point(x, y, a, b))
  ELSE IF x # None /\ y # None
       THEN Bind(fe_mul(y, y), LAMBDA y_squared :
            Bind(fe_mul(fe_mul(x, x), x), LAMBDA x_cubed :
            Bind(fe_mul(a, x), LAMBDA ax :
            Bind(fe_add(fe_add(x_cubed, ax), b), LAMBDA rhs :
              IF ~IsFE(y_squared) \/ ~IsFE(rhs) THEN Panicked
              ELSE IF y_squared = rhs
                   THEN Ok(Point(x, y, a, b))
                   ELSE Err("NotOnCurve")))))
       ELSE Err("NotOnCurve")

is_infinity(self) == self.x = None /\ self.y = None

\* the slope of the doubling branch: (3 x1^2 + a) / (y1 + y1)
doubling_slope(x1, y1, three, a) ==
  fe_div(fe_add(fe_mul(fe_mul(x1, x1), three), a), fe_add(y1, y1))

\* the slope of the chord branch: (y2 - y1) / (x2 - x1)
chord_slope(x1, y1, x2, y2) ==
  fe_div(fe_sub(y2, y1), fe_sub(x2, x1))

\* add without the inverse-pair branch
Point_add_no_inverse_check(self, other) ==
  IF self.a # other.a \/ self.b # other.b THEN Err("DifferentCurves")
  ELSE IF self.x = None /\ self.y = None THEN Ok(other)
  ELSE IF other.x = None /\ other.y = None THEN Ok(self)
  ELSE LET x1 == self.x
           y1 == self.y
           x2 == other.x
           y2 == other.y
           three == FieldElement_new(3, x1.prime)
       IN Bind(IF x1 = x2 /\ y1 = y2
               THEN doubling_slope(x1, y1, three.val, self.a)
               ELSE chord_slope(x1, y1, x2, y2), LAMBDA slope :
          Bind(fe_sub(fe_sub(fe_mul(slope, slope), x1), x2), LAMBDA x3 :
          Bind(fe_sub(fe_mul(slope, fe_sub(x1, x3)), y1), LAMBDA y3 :
            IF ~IsFE(x3) \/ ~IsFE(y3) THEN Panicked
            ELSE Point_new(x3, y3, self.a, self.b))))

Point_add(self, other) ==
  IF self.a # other.a \/ self.b # other.b THEN Err("DifferentCurves")
  ELSE IF is_infinity(self) THEN Ok(other)
  ELSE IF is_infinity(other) THEN Ok(self)
  ELSE IF self.x = None \/ self.y = None \/ other.x = None \/ other.y = None
       THEN Panicked
  ELSE LET x1 == self.x
           y1 == self.y
           x2 == other.x
           y2 == other.y
       IN IF x1 = x2 /\ y1 = fe_neg(y2)
          THEN Point_new(None, None, self.a, self.b)
          ELSE LET three == FieldElement_new(3, x1.prime)
               IN IF x1 = x2 /\ y1 = y2 /\ ~IsOk(three)
                  THEN Err("FieldError")
                  ELSE Bind(IF x1 = x2 /\ y1 = y2
                            THEN doubling_slope(x1, y1, three.val, self.a)
                            ELSE chord_slope(x1, y1, x2, y2), LAMBDA slope :
                       Bind(fe_sub(fe_sub(fe_mul(slope, slope), x1), x2), LAMBDA x3 :
                       Bind(fe_sub(fe_mul(slope, fe_sub(x1, x3)), y1), LAMBDA y3 :
                         IF ~IsFE(x3) \/ ~IsFE(y3) THEN Panicked
                         ELSE Point_new(x3, y3, self.a, self.b))))

Point_neg(self) ==
  IF is_infinity(self) THEN self
  ELSE Point(self.x, IF self.y = None THEN None ELSE fe_neg(self.y),
             self.a, self.b)

\* double-and-add that doubles before it adds
RECURSIVE mul_loop_double_first(_, _, _)
mul_loop_double_first(coef, current, result) ==
  IF coef > 0
  THEN Try(Point_add(current, current), LAMBDA doubled :
       Try(IF coef % 2 = 1 THEN Point_add(result, doubled) ELSE Ok(result),
           LAMBDA added :
             mul_loop_double_first(coef \div 2, doubled, added)))
  ELSE Ok(result)

\* the double-and-add loop of Mul<i64>
RECURSIVE mul_loop(_, _, _)
mul_loop(coef, current, result) ==
  IF coef > 0
  THEN Try(IF coef % 2 = 1 THEN Point_add(result, current) ELSE Ok(result),
           LAMBDA added :
       Try(Point_add(current, current), LAMBDA doubled :
             mul_loop(coef \div 2, doubled, added)))
  ELSE Ok(result)

Point_mul(self, scalar) ==
  Try(Point_new(None, None, self.a, self.b), LAMBDA result :
    mul_loop(scalar, self, result))

\* -------------------------------------------------------------- curve.rs
MapErr(r, e) ==
  IF r.tag = "Err" THEN Err(e) ELSE r

\* Curve::new testing 4a^2 + 27b^2 instead of 4a^3 + 27b^2
Curve_new_square_disc(a, b, prime) ==
  LET fa == FieldElement_new(a, prime)
      fb == FieldElement_new(b, prime)
  IN IF ~IsOk(fa) \/ ~IsOk(fb) THEN Err("InvalidParameters")
     ELSE LET a_squared == fe_mul(fe_mul(fa.val, fa.val),
                                  Expect(FieldElement_new(4, prime)))
              b_squared == fe_mul(fe_mul(fb.val, fb.val),
                                  Expect(FieldElement_new(27, prime)))
          IN IF fe_add(a_squared, b_squared).value = 0
             THEN Err("InvalidParameters")
             ELSE Ok([a |-> fa.val, b |-> fb.val, prime |-> prime])

Curve_new(a, b, prime) ==
  LET fa == MapErr(FieldElement_new(a, prime), "InvalidParameters")
      fb == MapErr(FieldElement_new(b, prime), "InvalidParameters")
  IN IF ~IsOk(fa) THEN fa
     ELSE IF ~IsOk(fb) THEN fb
     ELSE LET a_cubed == fe_mul(fe_mul(fe_mul(fa.val, fa.val), fa.val),
                                Expect(FieldElement_new(4, prime)))
              b_squared == fe_mul(fe_mul(fb.val, fb.val),
                                  Expect(FieldElement_new(27, prime)))
              disc == fe_add(a_cubed, b_squared)
          IN IF ~IsFE(disc) THEN Panicked
             ELSE IF disc.value = 0 THEN Err("InvalidParameters")
             ELSE Ok([a |-> fa.val, b |-> fb.val, prime |-> prime])

Curve_point(self, x, y) ==
  LET fx_ == MapErr(FieldElement_new(x, self.prime), "PointGenerationFailed")
      fy_ == MapErr(FieldElement_new(y, self.prime), "PointGenerationFailed")
  IN IF ~IsOk(fx_) THEN fx_
     ELSE IF ~IsOk(fy_) THEN fy_
     ELSE MapErr(Point_new(fx_.val, fy_.val, self.a, self.b), "PointGenerationFailed")

Curve_infinity_point(self) ==
  Expect(Point_new(None, None, self.a, self.b))

\* the loop `for n in 1..=self.prime` of point_order
RECURSIVE order_loop(_, _, _, _)
order_loop(self, point, current, n) ==
  IF n > self.prime THEN Err("PointGenerationFailed")
  ELSE Try(MapErr(Point_add(current, point), "PointGenerationFailed"),
           LAMBDA sum :
             IF is_infinity(sum) THEN Ok(n + 1)
             ELSE order_loop(self, point, sum, n + 1))

Curve_point_order(self, point) ==
  order_loop(self, point, point, 1)

\* ------------------------------------------------------ protocols/mod.rs
\* the values rng.random_range(1..order) can return
generate_private_key(order) == 1..(order - 1)

\* ------------------------------------------- protocols/diffie_hellman.rs
\* DiffieHellman::new with `drawn` the value the random generator returns
DiffieHellman_new(curve_, generator, drawn) ==
  Try(MapErr(Curve_point_order(curve_, generator), "InvalidParameters"),
      LAMBDA order :
        IF generate_private_key(order) = {} THEN Panicked
        ELSE Try(MapErr(Point_mul(generator, drawn), "OperationFailed"),
                 LAMBDA public_key :
                   Ok([private_key |-> drawn, public_key |-> public_key])))

\* compute_shared_secret multiplying the party's own public key
compute_shared_secret_own_key(self, other_public) ==
  MapErr(Point_mul(self.public_key, self.private_key), "OperationFailed")

compute_shared_secret(self, other_public) ==
  MapErr(Point_mul(other_public, self.private_key), "OperationFailed")

\* -------------------------------------------------- protocols/elgamal.rs
\* ElGamal::new with `drawn` the value the random generator returns
ElGamal_new(curve_, generator, drawn) ==
  Try(MapErr(Curve_point_order(curve_, generator), "InvalidParameters"),
      LAMBDA order :
        IF generate_private_key(order) = {} THEN Panicked
        ELSE Try(MapErr(Point_mul(generator, drawn), "OperationFailed"),
                 LAMBDA public_key :
                   Ok([curve |-> curve_, generator |-> generator,
                       private_key |-> drawn, public_key |-> public_key])))

\* ElGamal::encrypt; r is None or Ok(scalar) for Some(scalar), `drawn` the
\* value the random generator returns when r is None
ElGamal_encrypt(self, message, r, drawn) ==
  Try(MapErr(Curve_point_order(self.curve, self.generator), "InvalidParameters"),
      LAMBDA order :
        IF r = None /\ generate_private_key(order) = {} THEN Panicked
        ELSE LET r_ == IF r = None THEN drawn ELSE r.val
             IN Try(MapErr(Point_mul(self.generator, r_), "OperationFailed"),
                    LAMBDA c1 :
                Try(MapErr(Point_mul(self.public_key, r_), "OperationFailed"),
                    LAMBDA rb :
                Try(MapErr(Point_add(message, rb), "OperationFailed"),
                    LAMBDA c2 :
                      Ok([c1 |-> c1, c2 |-> c2])))))

ElGamal_decrypt(self, ciphertext) ==
  Try(MapErr(Point_mul(ciphertext.c1, self.private_key), "OperationFailed"),
      LAMBDA kc1 :
        MapErr(Point_add(ciphertext.c2, Point_neg(kc1)), "OperationFailed"))

\* -------------------------------------------------------------- state
VARIABLES
  fx, fy, fz,   \* the caller's three field values: Result of FieldElement::new
  fcall,        \* the last field-level call: operation, arguments, outcome
  curve,        \* the caller's curve: Result of Curve::new
  pp, pq,       \* the caller's two points
  pcall,        \* the last curve- or point-level call
  dha, dhb,     \* the two key-exchange parties: Result of DiffieHellman::new
  sha, shb,     \* the shared secret each party computed
  eg,           \* the recipient: Result of ElGamal::new
  ct1, ct2,     \* two encryptions: message, r, Result of encrypt
  dec           \* the last decryption: what was decrypted, Result of decrypt

fvars == <<fx, fy, fz, fcall>>
pvars == <<curve, pp, pq, pcall>>
dvars == <<dha, dhb, sha, shb>>
evars == <<eg, ct1, ct2, dec>>
vars == <<fx, fy, fz, fcall, curve, pp, pq, pcall, dha, dhb, sha, shb, eg, ct1, ct2, dec>>

NoCall == [op |-> "none"]

FieldIdle ==
  /\ fx = None /\ fy = None /\ fz = None
  /\ fcall = NoCall

CurveIdle ==
  /\ curve = None /\ pp = None /\ pq = None
  /\ pcall = NoCall

ProtocolIdle ==
  /\ dha = None /\ dhb = None /\ sha = None /\ shb = None
  /\ eg = None /\ ct1 = None /\ ct2 = None /\ dec = None

Init == FieldIdle /\ CurveIdle /\ ProtocolIdle

\* --------------------------------------------------- field-level calls
\* FieldElement::new(v, p), kept in the next free slot
FieldNew(v, p) ==
  LET r == FieldElement_new(v, p)
      c == [op |-> "new", v |-> v, p |-> p, out |-> r]
  IN /\ \/ /\ fx = None
           /\ fx' = r /\ fcall' = c /\ UNCHANGED <<fy, fz>>
        \/ /\ fx # None /\ fy = None
           /\ fy' = r /\ fcall' = c /\ UNCHANGED <<fx, fz>>
        \/ /\ fy # None /\ fz = None
           /\ fz' = r /\ fcall' = c /\ UNCHANGED <<fx, fy>>
     /\ UNCHANGED <<pvars, dvars, evars>>

\* the operands are the values just constructed: fx on the left, fy on the right
FieldReady ==
  /\ fz # None /\ fcall.op = "new"
  /\ fx.tag = "Ok" /\ fy.tag = "Ok"

FieldAdd ==
  /\ FieldReady
  /\ fcall' = [op |-> "add", lhs |-> fx.val, rhs |-> fy.val,
                out |-> fe_add(fx.val, fy.val)]
  /\ UNCHANGED <<fx, fy, fz>> /\ UNCHANGED <<pvars, dvars, evars>>

FieldSub ==
  /\ FieldReady
  /\ fcall' = [op |-> "sub", lhs |-> fx.val, rhs |-> fy.val,
                out |-> fe_sub(fx.val, fy.val)]
  /\ UNCHANGED <<fx, fy, fz>> /\ UNCHANGED <<pvars, dvars, evars>>

FieldMul ==
  /\ FieldReady
  /\ fcall' = [op |-> "mul", lhs |-> fx.val, rhs |-> fy.val,
                out |-> fe_mul(fx.val, fy.val)]
  /\ UNCHANGED <<fx, fy, fz>> /\ UNCHANGED <<pvars, dvars, evars>>

FieldDiv ==
  /\ FieldReady
  /\ fcall' = [op |-> "div", lhs |-> fx.val, rhs |-> fy.val,
                out |-> fe_div(fx.val, fy.val)]
  /\ UNCHANGED <<fx, fy, fz>> /\ UNCHANGED <<pvars, dvars, evars>>

FieldNeg ==
  /\ FieldReady
  /\ fcall' = [op |-> "neg", lhs |-> fx.val, out |-> fe_neg(fx.val)]
  /\ UNCHANGED <<fx, fy, fz>> /\ UNCHANGED <<pvars, dvars, evars>>

FieldPow ==
  /\ FieldReady
  /\ \E e \in Exps :
       fcall' = [op |-> "pow", lhs |-> fx.val, exp |-> e,
                 out |-> FieldElement_pow(fx.val, e)]
  /\ UNCHANGED <<fx, fy, fz>> /\ UNCHANGED <<pvars, dvars, evars>>

FieldNext ==
  \/ \E v \in Values, p \in Moduli : FieldNew(v, p)
  \/ FieldAdd
  \/ FieldSub
  \/ FieldMul
  \/ FieldDiv
  \/ FieldNeg
  \/ FieldPow

\* the field layer on its own
SpecField == Init /\ [][FieldNext]_vars

\* --------------------------------------------- curve- and point-level calls
\* Curve::new(a, b, prime): the caller keeps the curve it gets
CurveNew(a, b, prime) ==
  LET r == Curve_new(a, b, prime)
  IN /\ curve = None
     /\ curve' = r
     /\ pcall' = [op |-> "curve", a |-> a, b |-> b, prime |-> prime, out |-> r]
     /\ UNCHANGED <<pp, pq>> /\ UNCHANGED <<fvars, dvars, evars>>

HasCurve == curve # None /\ curve.tag = "Ok"

\* the caller asks for another point: it has a curve and a free slot, has
\* dealt with the last call's result and has not set up a protocol yet
CanObtain ==
  /\ HasCurve /\ pq = None
  /\ pcall.op \in {"curve", "keep"}
  /\ dha = None /\ eg = None

\* Curve::point(x, y)
CurvePoint(x, y) ==
  /\ CanObtain
  /\ pcall' = [op |-> "point", x |-> x, y |-> y,
               out |-> Curve_point(curve.val, x, y)]
  /\ UNCHANGED <<curve, pp, pq>> /\ UNCHANGED <<fvars, dvars, evars>>

\* Curve::infinity_point()
CurveInfinity ==
  /\ CanObtain
  /\ pcall' = [op |-> "infinity", out |-> Ok(Curve_infinity_point(curve.val))]
  /\ UNCHANGED <<curve, pp, pq>> /\ UNCHANGED <<fvars, dvars, evars>>

\* the optional coordinates Point::new can be handed over the curve's field
Coords ==
  IF HasCurve
  THEN {None} \cup {[value |-> v, prime |-> curve.val.prime] :
                      v \in 0..(curve.val.prime - 1)}
  ELSE {}

\* Point::new(x, y, a, b) with the curve's coefficients
PointNew(x, y) ==
  /\ CanObtain
  /\ pcall' = [op |-> "pnew", x |-> x, y |-> y,
               out |-> Point_new(x, y, curve.val.a, curve.val.b)]
  /\ UNCHANGED <<curve, pp, pq>> /\ UNCHANGED <<fvars, dvars, evars>>

\* the caller keeps the point the last call returned, in the next free slot
KeepPoint ==
  /\ pcall.op \in {"point", "infinity", "pnew", "add", "neg", "mul"}
  /\ IsOk(pcall.out)
  /\ \/ /\ pp = None
        /\ pp' = pcall.out.val /\ UNCHANGED pq
     \/ /\ pp # None /\ pq = None
        /\ pq' = pcall.out.val /\ UNCHANGED pp
  /\ pcall' = [op |-> "keep"]
  /\ UNCHANGED curve /\ UNCHANGED <<fvars, dvars, evars>>

\* the operands are the two points the caller holds: pp on the left, pq on
\* the right
PointReady == pq # None /\ pcall.op = "keep"

PointAdd ==
  /\ PointReady
  /\ \E l, r \in {pp, pq} :
       pcall' = [op |-> "add", lhs |-> l, rhs |-> r, out |-> Point_add(l, r)]
  /\ UNCHANGED <<curve, pp, pq>> /\ UNCHANGED <<fvars, dvars, evars>>

PointNeg ==
  /\ PointReady
  /\ pcall' = [op |-> "neg", lhs |-> pp, out |-> Ok(Point_neg(pp))]
  /\ UNCHANGED <<curve, pp, pq>> /\ UNCHANGED <<fvars, dvars, evars>>

PointMul(k) ==
  /\ PointReady
  /\ pcall' = [op |-> "mul", lhs |-> pp, k |-> k, out |-> Point_mul(pp, k)]
  /\ UNCHANGED <<curve, pp, pq>> /\ UNCHANGED <<fvars, dvars, evars>>

PointOrder ==
  /\ PointReady
  /\ pcall' = [op |-> "order", lhs |-> pp,
               out |-> Curve_point_order(curve.val, pp)]
  /\ UNCHANGED <<curve, pp, pq>> /\ UNCHANGED <<fvars, dvars, evars>>

CurveNext ==
  \/ \E a, b \in Coefs, prime \in Moduli : CurveNew(a, b, prime)
  \/ \E x, y \in Coefs : CurvePoint(x, y)
  \/ CurveInfinity
  \/ \E x, y \in Coords : PointNew(x, y)
  \/ KeepPoint
  \/ PointAdd
  \/ PointNeg
  \/ \E k \in Scalars : PointMul(k)
  \/ PointOrder

\* the curve and point layer on its own
SpecCurve == Init /\ [][CurveNext]_vars

\* ------------------------------------------------------- protocol calls
\* every point Curve::point or Curve::infinity_point can return on the curve
CurvePoints ==
  IF HasCurve
  THEN {Curve_infinity_point(curve.val)} \cup
       {r.val : r \in {q \in {Curve_point(curve.val, x, y) :
                                x, y \in 0..(curve.val.prime - 1)} : IsOk(q)}}
  ELSE {}

\* what the random generator can return for a generator point: a value of
\* generate_private_key(order), or nothing to draw when no order is found
Draws(g) ==
  Bind(Curve_point_order(curve.val, g), LAMBDA order :
    IF IsOk(order) /\ generate_private_key(order.val) # {}
    THEN generate_private_key(order.val)
    ELSE {0})

\* the generator both parties and the recipient use: the point the caller holds
Generator == pp

ProtocolReady == HasCurve /\ pp # None /\ pq = None /\ pcall.op = "keep"

\* DiffieHellman::new(curve, generator) for the first, then the second party
DHNew ==
  /\ ProtocolReady /\ eg = None /\ dhb = None
  /\ \E drawn \in Draws(Generator) :
     \E r \in {DiffieHellman_new(curve.val, Generator, drawn)} :
          \/ /\ dha = None
             /\ dha' = r /\ UNCHANGED dhb
          \/ /\ dha # None /\ dhb = None
             /\ dhb' = r /\ UNCHANGED dha
  /\ UNCHANGED <<sha, shb>> /\ UNCHANGED <<fvars, pvars, evars>>

\* each party's compute_shared_secret on the other's public key
DHShared ==
  /\ dha # None /\ dhb # None /\ IsOk(dha) /\ IsOk(dhb)
  /\ \/ /\ sha = None
        /\ sha' = compute_shared_secret(dha.val, dhb.val.public_key)
        /\ UNCHANGED shb
     \/ /\ shb = None
        /\ shb' = compute_shared_secret(dhb.val, dha.val.public_key)
        /\ UNCHANGED sha
  /\ UNCHANGED <<dha, dhb>> /\ UNCHANGED <<fvars, pvars, evars>>

DHNext ==
  \/ \E a, b \in Coefs, prime \in Moduli : CurveNew(a, b, prime)
  \/ \E x, y \in Coefs : CurvePoint(x, y)
  \/ CurveInfinity
  \/ KeepPoint
  \/ DHNew
  \/ DHShared

\* the key exchange on top of the curve layer
SpecDH == Init /\ [][DHNext]_vars

\* the r argument of encrypt: None, or Some(r) for r in 0..MaxR
ROpts == {None} \cup {Ok(r) : r \in 0..MaxR}

\* ElGamal::new(curve, generator)
EGNew ==
  /\ ProtocolReady /\ eg = None /\ dha = None
  /\ \E drawn \in Draws(Generator) :
       eg' = ElGamal_new(curve.val, Generator, drawn)
  /\ UNCHANGED <<ct1, ct2, dec>> /\ UNCHANGED <<fvars, pvars, dvars>>

HasRecipient == eg # None /\ IsOk(eg)

\* encrypt(message, r) for a first, then a second message
EGEncrypt(message, r) ==
  /\ HasRecipient /\ dec = None /\ ct2 = None
  /\ \E drawn \in Draws(eg.val.generator) :
     \E c \in {[m |-> message, r |-> r,
                out |-> ElGamal_encrypt(eg.val, message, r, drawn)]} :
          \/ /\ ct1 = None
             /\ ct1' = c /\ UNCHANGED ct2
          \/ /\ ct1 # None /\ ct2 = None
             /\ ct2' = c /\ UNCHANGED ct1
  /\ UNCHANGED <<eg, dec>> /\ UNCHANGED <<fvars, pvars, dvars>>

\* decrypt of the ciphertext of the first message
EGDecrypt ==
  /\ HasRecipient /\ ct1 # None /\ IsOk(ct1.out) /\ dec = None
  /\ dec' = [of |-> "ct1", out |-> ElGamal_decrypt(eg.val, ct1.out.val)]
  /\ UNCHANGED <<eg, ct1, ct2>> /\ UNCHANGED <<fvars, pvars, dvars>>

\* the component-wise sum of two ciphertexts, as the caller builds it
ciphertext_sum(x, y) ==
  Bind(Point_add(x.c1, y.c1), LAMBDA c1 :
  Bind(Point_add(x.c2, y.c2), LAMBDA c2 :
    IF ~IsOk(c1) \/ ~IsOk(c2) THEN Panicked
    ELSE Ok([c1 |-> c1.val, c2 |-> c2.val])))

\* decrypt of the sum of the two ciphertexts
EGDecryptSum ==
  /\ HasRecipient /\ ct2 # None /\ IsOk(ct1.out) /\ IsOk(ct2.out) /\ dec = None
  /\ dec' = [of |-> "sum",
             out |-> Try(ciphertext_sum(ct1.out.val, ct2.out.val), LAMBDA sum :
                       ElGamal_decrypt(eg.val, sum))]
  /\ UNCHANGED <<eg, ct1, ct2>> /\ UNCHANGED <<fvars, pvars, dvars>>

EGNext ==
  \/ \E a, b \in Coefs, prime \in EGModuli : CurveNew(a, b, prime)
  \/ \E x, y \in Coefs : CurvePoint(x, y)
  \/ CurveInfinity
  \/ KeepPoint
  \/ EGNew
  \/ \E message \in CurvePoints, r \in ROpts : EGEncrypt(message, r)
  \/ EGDecrypt
  \/ EGDecryptSum

\* the encryption scheme on top of the curve layer
SpecEG == Init /\ [][EGNext]_vars

Next == FieldNext \/ CurveNext \/ DHNext \/ EGNext

Spec == Init /\ [][Next]_vars

\* ================================================================ claims
IsPrime(n) == n > 1 /\ \A d \in 2..(n - 1) : n % d # 0

InRange(e) == IsFE(e) /\ e.prime > 0 /\ 0 <= e.value /\ e.value < e.prime

\* the curve and the points of the crate's own tests: y^2 = x^3 + 7 over F_223
TestCurve == Curve_new(0, 7, 223)
TestP == Curve_point(TestCurve.val, 192, 105)
TestQ == Curve_point(TestCurve.val, 17, 56)
TestInfinity == Curve_infinity_point(TestCurve.val)

\* test_curve_creation, and the singular curve a = b = 0
TestCurveCreation ==
  /\ TestCurve = Ok([a |-> [value |-> 0, prime |-> 223],
                     b |-> [value |-> 7, prime |-> 223], prime |-> 223])
  /\ Curve_new(0, 0, 223) = Err("InvalidParameters")

\* test_point_creation_on_curve, test_invalid_point, test_point_addition
TestPointCreation ==
  /\ IsOk(TestP) /\ TestP.val.x.value = 192 /\ TestP.val.y.value = 105
  /\ Curve_point(TestCurve.val, 200, 119) = Err("PointGenerationFailed")
  /\ Point_add(TestP.val, TestQ.val) = Curve_point(TestCurve.val, 170, 142)

\* test_point_addition_with_infinity, test_point_negation
TestIdentity ==
  /\ Point_add(TestP.val, TestInfinity) = TestP
  /\ Point_add(TestInfinity, TestP.val) = TestP
  /\ Point_add(TestP.val, Point_neg(TestP.val)) = Ok(TestInfinity)

\* test_point_doubling, test_scalar_multiplication
TestDoubling ==
  /\ Point_mul(TestP.val, 2) = Point_add(TestP.val, TestP.val)
  /\ Point_mul(TestP.val, 2) = Curve_point(TestCurve.val, 49, 71)
  /\ Point_mul(TestP.val, 0) = Ok(TestInfinity)

\* ---------------------------------------------------------------- C1
\* C1: FieldElement::new(v, p) with p > 0 returns Ok with a value in [0, p)
\* congruent to v modulo p, negative v included, and Err(InvalidElement) when
\* p <= 0; every value add, sub, mul, div, neg and pow return is in [0, p).
C1_Normalized ==
  /\ fcall.op = "new" =>
       IF fcall.p > 0
       THEN /\ IsOk(fcall.out)
            /\ InRange(fcall.out.val)
            /\ fcall.out.val.prime = fcall.p
            /\ (fcall.out.val.value - fcall.v) % fcall.p = 0
       ELSE fcall.out = Err("InvalidElement")
  /\ fcall.op \in {"add", "sub", "mul", "div", "neg"} =>
       (IsFE(fcall.out) => InRange(fcall.out) /\ fcall.out.prime = fcall.lhs.prime)
  /\ fcall.op = "pow" =>
       (IsOk(fcall.out) =>
          InRange(fcall.out.val) /\ fcall.out.val.prime = fcall.lhs.prime)
  /\ \A r \in {fx, fy, fz} : r.tag = "Ok" => InRange(r.val)

\* a negative integer was normalized to a positive residue
C1_Witness ==
  /\ fcall.op = "new" /\ fcall.v < 0 /\ fcall.p > 1
  /\ IsOk(fcall.out) /\ fcall.out.val.value > 0

\* ---------------------------------------------------------------- C2
\* the three held values are elements of one prime field
Compatible ==
  /\ fz # None
  /\ fx.tag = "Ok" /\ fy.tag = "Ok" /\ fz.tag = "Ok"
  /\ fx.val.prime = fy.val.prime /\ fy.val.prime = fz.val.prime
  /\ IsPrime(fx.val.prime)

\* x * inverse(x) == 1 and (1 / x) * x == 1, the inverse in [0, p)
InverseLaw(x) ==
  LET one == Expect(FieldElement_new(1, x.prime))
      i == FieldElement_inv(x)
  IN x.value # 0 =>
       /\ IsOk(i) /\ InRange(i.val)
       /\ fe_mul(x, i.val) = one
       /\ fe_mul(fe_div(one, x), x) = one

\* C2: over a prime modulus, addition is associative, 0 is its identity, -x is
\* the additive inverse of x, and for x # 0 the extended-Euclid inverse is in
\* [0, p) and x * inverse(x) == 1, so a quotient times its divisor gives back
\* the dividend.
C2_FieldLaws ==
  /\ Compatible =>
       LET x == fx.val
           y == fy.val
           z == fz.val
           zero == Expect(FieldElement_new(0, x.prime))
       IN /\ fe_add(x, fe_add(y, z)) = fe_add(fe_add(x, y), z)
          /\ fe_add(x, zero) = x
          /\ fe_add(x, fe_neg(x)) = zero
          /\ InverseLaw(x) /\ InverseLaw(y) /\ InverseLaw(z)
  /\ (Compatible /\ fcall.op = "add") =>
       fe_add(fcall.out, fz.val) = fe_add(fcall.lhs, fe_add(fcall.rhs, fz.val))
  /\ (Compatible /\ fcall.op = "neg") =>
       fe_add(fcall.lhs, fcall.out).value = 0
  /\ (Compatible /\ fcall.op = "div" /\ fcall.rhs.value # 0) =>
       /\ InRange(fcall.out)
       /\ fe_mul(fcall.out, fcall.rhs) = fcall.lhs

\* a division whose divisor has a negative Bezout coefficient
C2_Witness ==
  /\ Compatible /\ fcall.op = "div" /\ fcall.rhs.value > 1
  /\ inv_loop(fcall.rhs.prime, fcall.rhs.value, 1, 0, 0, 1).old_t < 0
  /\ IsFE(fcall.out) /\ fcall.out.value > 1

\* ---------------------------------------------------------------- C3
\* 4a^3 + 27b^2 is congruent to 0 modulo prime, over the integers
ZeroDiscriminant(a, b, prime) ==
  (4 * a * a * a + 27 * b * b) % prime = 0

\* C3: Curve::new(a, b, prime) returns Err(InvalidParameters) exactly when
\* prime <= 0 or 4a^3 + 27b^2 is 0 modulo prime (so always for a = b = 0), and
\* otherwise the curve with a and b normalized into [0, prime) and that prime.
C3_CurveValidation ==
  /\ pcall.op = "curve" =>
       IF pcall.prime <= 0 \/ ZeroDiscriminant(pcall.a, pcall.b, pcall.prime)
       THEN pcall.out = Err("InvalidParameters")
       ELSE pcall.out =
              Ok([a |-> [value |-> pcall.a % pcall.prime, prime |-> pcall.prime],
                  b |-> [value |-> pcall.b % pcall.prime, prime |-> pcall.prime],
                  prime |-> pcall.prime])
  /\ (pcall.op = "curve" /\ pcall.a = 0 /\ pcall.b = 0) => ~IsOk(pcall.out)
  /\ TestCurveCreation

\* a singular curve with a # 0 over a prime field was rejected
C3_Witness ==
  /\ pcall.op = "curve" /\ IsPrime(pcall.prime)
  /\ pcall.a % pcall.prime # 0 /\ pcall.a < 0
  /\ pcall.out = Err("InvalidParameters")

\* ---------------------------------------------------------------- C4
\* y^2 == x^3 + a x + b modulo p, over the integers
Satisfies(x, y, a, b, p) ==
  (y * y - (x * x * x + a * x + b)) % p = 0

\* the point is the point at infinity, or an affine point of the held curve
ValidPoint(pt) ==
  /\ pt.a = curve.val.a /\ pt.b = curve.val.b
  /\ \/ pt.x = None /\ pt.y = None
     \/ /\ pt.x # None /\ pt.y # None
        /\ InRange(pt.x) /\ InRange(pt.y)
        /\ pt.x.prime = curve.val.prime /\ pt.y.prime = curve.val.prime
        /\ Satisfies(pt.x.value, pt.y.value, pt.a.value, pt.b.value,
                     curve.val.prime)

\* C4: every point the calls return is infinity or satisfies the curve
\* equation; Point::new accepts (None, None), rejects one missing coordinate
\* with NotOnCurve and accepts two coordinates iff the equation holds;
\* Curve::point normalizes x and y and reports a failure as
\* PointGenerationFailed.
C4_PointsOnCurve ==
  /\ \A pt \in {pp, pq} : pt # None => ValidPoint(pt)
  /\ (pcall.op \in {"point", "infinity", "pnew", "add", "neg", "mul"}
      /\ IsOk(pcall.out)) => ValidPoint(pcall.out.val)
  /\ pcall.op = "pnew" =>
       IF pcall.x = None /\ pcall.y = None
       THEN pcall.out = Ok(Point(None, None, curve.val.a, curve.val.b))
       ELSE IF pcall.x = None \/ pcall.y = None
            THEN pcall.out = Err("NotOnCurve")
            ELSE IF Satisfies(pcall.x.value, pcall.y.value, curve.val.a.value,
                              curve.val.b.value, curve.val.prime)
                 THEN pcall.out = Ok(Point(pcall.x, pcall.y,
                                           curve.val.a, curve.val.b))
                 ELSE pcall.out = Err("NotOnCurve")
  /\ pcall.op = "point" =>
       LET p == curve.val.prime
           x == pcall.x % p
           y == pcall.y % p
       IN IF Satisfies(x, y, curve.val.a.value, curve.val.b.value, p)
          THEN pcall.out = Ok(Point([value |-> x, prime |-> p],
                                    [value |-> y, prime |-> p],
                                    curve.val.a, curve.val.b))
          ELSE pcall.out = Err("PointGenerationFailed")
  /\ TestPointCreation

\* two different affine points were added to an affine point
C4_Witness ==
  /\ pcall.op = "add" /\ IsOk(pcall.out)
  /\ pcall.lhs.x # None /\ pcall.rhs.x # None /\ pcall.lhs.x # pcall.rhs.x
  /\ pcall.out.val.x # None

\* ---------------------------------------------------------------- C5
\* -P stated on its own: same x, y replaced by (p - y) mod p
Negated(pt) ==
  IF pt.x = None /\ pt.y = None THEN pt
  ELSE [pt EXCEPT !.y = [value |-> (pt.y.prime - pt.y.value) % pt.y.prime,
                         prime |-> pt.y.prime]]

InfinityOf(pt) == Point(None, None, pt.a, pt.b)

\* C5: P + infinity == P, infinity + P == P and P + (-P) == infinity for every
\* valid P, with -P keeping x and negating y and -infinity == infinity; a
\* point with y == 0 added to itself gives infinity, with no division.
C5_IdentityAndInverse ==
  /\ \A pt \in {pp, pq} : pt # None =>
       /\ Point_add(pt, InfinityOf(pt)) = Ok(pt)
       /\ Point_add(InfinityOf(pt), pt) = Ok(pt)
       /\ Point_neg(pt) = Negated(pt)
       /\ Point_add(pt, Point_neg(pt)) = Ok(InfinityOf(pt))
       /\ Point_add(Point_neg(pt), pt) = Ok(InfinityOf(pt))
  /\ pcall.op = "neg" => pcall.out = Ok(Negated(pcall.lhs))
  /\ pcall.op = "add" =>
       /\ pcall.rhs = InfinityOf(pcall.lhs) => pcall.out = Ok(pcall.lhs)
       /\ pcall.lhs = InfinityOf(pcall.rhs) => pcall.out = Ok(pcall.rhs)
       /\ pcall.rhs = Negated(pcall.lhs) => pcall.out = Ok(InfinityOf(pcall.lhs))
  /\ TestIdentity

\* a point of order 2 over an odd prime was added to itself
C5_Witness ==
  /\ pcall.op = "add" /\ pcall.lhs = pcall.rhs
  /\ pcall.lhs.y # None /\ pcall.lhs.y.value = 0 /\ pcall.lhs.y.prime > 2
  /\ IsPrime(pcall.lhs.y.prime)
  /\ pcall.out = Ok(InfinityOf(pcall.lhs))

\* ---------------------------------------------------------------- C6
\* C6: when point_order(P) returns Ok(n), n * P is infinity and k * P is not
\* infinity for 0 < k < n: n is the least positive multiple reaching infinity.
C6_OrderIsLeast ==
  (pcall.op = "order" /\ IsOk(pcall.out)) =>
     LET n == pcall.out.val
     IN /\ Point_mul(pcall.lhs, n) = Ok(InfinityOf(pcall.lhs))
        /\ \A k \in 1..(n - 1) :
             /\ IsOk(Point_mul(pcall.lhs, k))
             /\ ~is_infinity(Point_mul(pcall.lhs, k).val)

\* ---------------------------------------------------------------- C7
\* the reference k-fold sum P + P + ... + P, added one P at a time
RECURSIVE RepeatedSum(_, _)
RepeatedSum(pt, k) ==
  IF k = 1 THEN Ok(pt)
  ELSE LET rest == RepeatedSum(pt, k - 1)
       IN IF ~IsOk(rest) THEN rest ELSE Point_add(rest.val, pt)

\* C7: on a curve over a prime modulus, P * k for k >= 1 returns Ok with the
\* k-fold repeated sum of P (so P * 2 == P + P), and P * k for k <= 0 returns
\* Ok(infinity).
C7_ScalarMultiplication ==
  /\ (pcall.op = "mul" /\ IsPrime(curve.val.prime)) =>
       IF pcall.k >= 1
       THEN /\ IsOk(pcall.out)
            /\ pcall.out = RepeatedSum(pcall.lhs, pcall.k)
            /\ pcall.k = 2 => pcall.out = Point_add(pcall.lhs, pcall.lhs)
       ELSE pcall.out = Ok(InfinityOf(pcall.lhs))
  /\ TestDoubling

\* an affine point times a scalar with several bits gave an affine point
C7_Witness ==
  /\ pcall.op = "mul" /\ IsPrime(curve.val.prime) /\ pcall.k >= 5
  /\ pcall.lhs.x # None
  /\ IsOk(pcall.out) /\ pcall.out.val.x # None

\* ---------------------------------------------------------------- C8
\* C8: the two parties' private keys are in [1, n) for n the order
\* point_order returns for the generator, both compute_shared_secret calls
\* return Ok, and the two shared points have equal x and equal y.
C8_SharedSecretAgrees ==
  /\ \A d \in {dha, dhb} : (d # None /\ IsOk(Curve_point_order(curve.val, Generator))) =>
       /\ IsOk(d)
       /\ d.val.private_key \in 1..(Curve_point_order(curve.val, Generator).val - 1)
  /\ sha # None => IsOk(sha)
  /\ shb # None => IsOk(shb)
  /\ (sha # None /\ shb # None) =>
       /\ sha.val.x = shb.val.x
       /\ sha.val.y = shb.val.y

\* two parties with different private keys agreed on an affine point
C8_Witness ==
  /\ sha # None /\ shb # None
  /\ dha.val.private_key # dhb.val.private_key
  /\ dha.val.private_key > 1 /\ dhb.val.private_key > 1
  /\ IsOk(sha) /\ sha.val.x # None /\ sha = shb

\* ---------------------------------------------------------------- C9
\* C9: decrypt(encrypt(M, Some(r))) returns Ok(M) for every message point M of
\* the curve, every recipient key and every r.
C9_RoundTrip ==
  /\ (ct1 # None /\ ct1.r # None) => IsOk(ct1.out)
  /\ (dec # None /\ dec.of = "ct1" /\ ct1.r # None) => dec.out = Ok(ct1.m)

\* ---------------------------------------------------------------- C10
\* C10: decrypting the component-wise sum of encrypt(M1, r1) and
\* encrypt(M2, r2) returns M1 + M2.
C10_Homomorphism ==
  (dec # None /\ dec.of = "sum") =>
     /\ IsOk(dec.out)
     /\ dec.out = Point_add(ct1.m, ct2.m)

\* ---------------------------------------------------------------- C11
\* C11: add, sub, mul and div on two elements of different moduli return the
\* typed failure MismatchedFields, div by an element of value 0 returns the
\* typed failure DivisionByZero, and none of them aborts or produces a number
\* in these cases.
C11_TypedFailures ==
  (fcall.op \in {"add", "sub", "mul", "div"}) =>
     /\ fcall.out # Panicked
     /\ fcall.lhs.prime # fcall.rhs.prime => fcall.out = Err("MismatchedFields")
     /\ (fcall.op = "div" /\ fcall.lhs.prime = fcall.rhs.prime
                          /\ fcall.rhs.value = 0) =>
          fcall.out = Err("DivisionByZero")

\* ---------------------------------------------------------------- C12
\* C12: on every curve Curve::new accepts over a prime modulus (2 and 3
\* included), P + Q of two valid points returns Ok with a point on the curve,
\* P + Q == Q + P, and (P + Q) + R == P + (Q + R) for every point R of the
\* curve.
C12_GroupLaw ==
  (pcall.op = "add" /\ IsPrime(curve.val.prime)) =>
     /\ IsOk(pcall.out)
     /\ ValidPoint(pcall.out.val)
     /\ pcall.out = Point_add(pcall.rhs, pcall.lhs)
     /\ \A R \in CurvePoints :
          /\ IsOk(Point_add(pcall.rhs, R))
          /\ Point_add(pcall.out.val, R) =
               Point_add(pcall.lhs, Point_add(pcall.rhs, R).val)

\* ---------------------------------------------------------------- C13
\* C13: on every curve Curve::new accepts over a prime modulus, point_order of
\* an affine point of the curve stops after at most `prime` additions and
\* returns Ok: some multiple of the point reaches infinity within the bound,
\* so it never returns PointGenerationFailed.
C13_OrderBoundSuffices ==
  (pcall.op = "order" /\ IsPrime(curve.val.prime) /\ pcall.lhs.x # None) =>
     /\ IsOk(pcall.out)
     /\ pcall.out.val - 1 <= curve.val.prime

\* ---------------------------------------------------------------- C14
\* the reference power: 1 multiplied e times by x
RECURSIVE RepeatedProduct(_, _)
RepeatedProduct(x, e) ==
  IF e = 0 THEN Expect(FieldElement_new(1, x.prime))
  ELSE fe_mul(RepeatedProduct(x, e - 1), x)

\* test_field_element_power: 3^3 mod 13 == 1
TestPower ==
  FieldElement_pow(Expect(FieldElement_new(3, 13)), 3) =
    FieldElement_new(1, 13)

\* C14: over a prime modulus p, pow(x, e) for e >= 0 returns x multiplied e
\* times (pow(x, 0) == 1); for e < 0, e < -(p-1) included, and x # 0 it
\* returns pow(x, e mod (p-1)), so that pow(x, e) * pow(x, -e) == 1.
C14_Power ==
  /\ (fcall.op = "pow" /\ IsPrime(fcall.lhs.prime)) =>
       LET x == fcall.lhs
           e == fcall.exp
           folded == e % (x.prime - 1)
       IN IF e >= 0
          THEN /\ fcall.out = Ok(RepeatedProduct(x, e))
               /\ e = 0 => fcall.out = FieldElement_new(1, x.prime)
          ELSE x.value # 0 =>
                 /\ IsOk(fcall.out)
                 /\ fcall.out = Ok(RepeatedProduct(x, folded))
                 /\ fcall.out = FieldElement_pow(x, folded)
                 /\ fe_mul(fcall.out.val, RepeatedProduct(x, -e)) =
                      Expect(FieldElement_new(1, x.prime))
  /\ TestPower

\* a negative exponent below -(p-1) gave a power other than 0 and 1
C14_Witness ==
  /\ fcall.op = "pow" /\ IsPrime(fcall.lhs.prime)
  /\ fcall.exp < -(fcall.lhs.prime - 1) /\ fcall.lhs.value > 1
  /\ IsOk(fcall.out) /\ fcall.out.val.value > 1

====
